---- MODULE Spec2Model ----
(***************************************************************************)
(* Model of src/gcech/cech.py: the generalized Cech complex of weighted    *)
(* points in the plane, built by the baseline strategy CechComplexLE and   *)
(* by the witness-caching strategy CechComplex.                            *)
(*                                                                         *)
(* Arithmetic.  The inputs are integers.  Every comparison the code makes  *)
(* on dist(), on radii and on the guards of get_intersections is decided   *)
(* exactly: math.sqrt is correctly rounded, so d is exact whenever the     *)
(* comparison can be an equality.  An intersection point is the number     *)
(*     ( (px + qx*sqrt(K)) / den , (py + qy*sqrt(K)) / den )               *)
(* kept symbolically.  isPointInsideCell on such a point is decided        *)
(* exactly when the point is strictly inside or strictly outside the       *)
(* disc.  When the point lies exactly on the circle, the double the code   *)
(* computed is one rounding away from it on either side: the test is TRUE  *)
(* when every step of get_intersections is exact in binary floating point  *)
(* (Exact), and else its result is what the rounding of that               *)
(* computation makes it.  The variable rnd holds these results: one        *)
(* boolean for each such test the input admits, fixed for the run, since   *)
(* floating point is deterministic, and unconstrained, since the model     *)
(* does not compute roundings.                                             *)
(***************************************************************************)
EXTENDS Integers, Sequences, FiniteSets, TLC

\* Bounds of the checked inputs.
MaxN == 4
MaxCoord == 2
MaxRadius == 2
MaxTies == 4
\* Bounds of the inputs checked with a maximum dimension, and of the
\* inputs checked without the precondition of cech.
MaxNDim == 3
MaxDim == 3
MaxLen == 3

Abs(x) == IF x < 0 THEN -x ELSE x
Sgn(x) == IF x > 0 THEN 1 ELSE IF x < 0 THEN -1 ELSE 0

RECURSIVE Gcd(_, _)
Gcd(a, b) == IF b = 0 THEN a ELSE Gcd(b, a % b)

IsSquare(n) == n >= 0 /\ \E r \in 0..n : r * r = n
Isqrt(n) == CHOOSE r \in 0..n : r * r <= n /\ (r + 1) * (r + 1) > n

RECURSIVE IsPow2(_)
IsPow2(n) == n = 1 \/ (n > 1 /\ n % 2 = 0 /\ IsPow2(n \div 2))

\* num/den (den > 0) is a binary fraction: a double holds it exactly.
Dyadic(num, den) == IsPow2(den \div Gcd(Abs(num), den))

\* sign of L - M*sqrt(K) for L > 0, M > 0, K >= 0, without squaring L.
CmpRoot(L, M, K) ==
    LET q == L \div M
        rem == L % M
        T == M * (K - q * q) - 2 * q * rem
    IN  IF q * q > K THEN 1
        ELSE IF (q + 1) * (q + 1) <= K THEN -1
        ELSE IF T < 0 THEN 1
        ELSE IF T >= M THEN -1
        ELSE Sgn(rem * rem - M * T)

\* sign of L - M*sqrt(K), any integers L, M and K >= 0.
SignSurd(L, M, K) ==
    IF M = 0 \/ K = 0 THEN Sgn(L)
    ELSE IF L = 0 THEN -Sgn(M)
    ELSE IF Sgn(L) # Sgn(M) THEN Sgn(L)
    ELSE IF L > 0 THEN CmpRoot(L, M, K)
    ELSE -CmpRoot(-L, -M, K)

\* positions, radius, maxK: the arguments of cech, the same for both objects.
\* status, neighbor, S, k, err: the fields and the loop variable of the
\* CechComplexLE object ("LE") and of the CechComplex object ("Opt").
\* verified, intersections: the memo tables of CechComplex.simk.
\* rnd: the results of the rounding-dependent point-in-disc tests.
VARIABLES positions, radius, maxK, status, neighbor, S, k,
          verified, intersections, err, rnd

vars == <<positions, radius, maxK, status, neighbor, S, k,
          verified, intersections, err, rnd>>

Strategies == {"LE", "Opt"}

\* maxK=None, the default of cech
NoneK == -1

\* self.N = len(positions)
N == Cardinality(DOMAIN positions)

\* the geometry of cell i: what a floating-point result on it depends on
Ball(i) == <<positions[i], radius[i]>>

\* squared distance of the centres of cells i and j
Dist2(i, j) ==
    (positions[i][1] - positions[j][1]) * (positions[i][1] - positions[j][1])
  + (positions[i][2] - positions[j][2]) * (positions[i][2] - positions[j][2])

\* d > s and d < s for d = sqrt(D2) and an integer s
DistGt(D2, s) == s < 0 \/ D2 > s * s
DistLt(D2, s) == s > 0 /\ D2 < s * s

\* CechComplexBase.intersects
intersects(i, j) == ~DistGt(Dist2(i, j), radius[i] + radius[j])

\* CechComplexBase.isCellInsideCell
isCellInsideCell(i, j) == ~DistGt(Dist2(i, j), Abs(radius[i] - radius[j]))

\* the point positions[c], as returned by verify's containment shortcut
Centre(c) ==
    [px |-> positions[c][1], py |-> positions[c][2], qx |-> 0, qy |-> 0,
     K |-> 0, den |-> 1, gen |-> <<>>]

\* the value verify returns for "no witness" ([] in the code)
NoPoint ==
    [px |-> 0, py |-> 0, qx |-> 0, qy |-> 0, K |-> 0, den |-> 0, gen |-> <<>>]

\* every floating-point step of get_intersections(x0, y0, r0, x1, y1, r1)
\* is exact: d, a, h and the quotients by d are binary fractions
ExactSteps(x0, y0, r0, x1, y1, r1) ==
    LET dx == x1 - x0
        dy == y1 - y0
        D  == dx * dx + dy * dy
        A  == r0 * r0 - r1 * r1 + D
        KK == 4 * D * r0 * r0 - A * A
        d  == Isqrt(D)
        h2 == Isqrt(KK)
    IN  /\ IsSquare(D) /\ IsSquare(KK)
        /\ Dyadic(A, 2 * d) /\ Dyadic(h2, 2 * d)
        /\ Dyadic(A * dx, 2 * D) /\ Dyadic(A * dy, 2 * D)
        /\ Dyadic(h2 * dx, 2 * D) /\ Dyadic(h2 * dy, 2 * D)

\* the point p was computed without rounding
Exact(p) ==
    \/ p.gen = <<>>
    \/ ExactSteps(p.gen[1], p.gen[2], p.gen[3], p.gen[4], p.gen[5], p.gen[6])

\* get_intersections without its test "d < abs(r0-r1)": the division by d is
\* then reached with d = 0 for concentric circles of unequal radii
get_intersectionsNoNested(x0, y0, r0, x1, y1, r1) ==
    LET dx == x1 - x0
        dy == y1 - y0
        D  == dx * dx + dy * dy
        A  == r0 * r0 - r1 * r1 + D
        KK == 4 * D * r0 * r0 - A * A
        P(s) == [px |-> 2 * D * x0 + A * dx, py |-> 2 * D * y0 + A * dy,
                 qx |-> s * dy, qy |-> -s * dx, K |-> KK, den |-> 2 * D,
                 gen |-> <<x0, y0, r0, x1, y1, r1, s>>]
    IN  IF DistGt(D, r0 + r1) THEN [pts |-> <<>>, raised |-> ""]
        ELSE IF D = 0 /\ r0 = r1 THEN [pts |-> <<>>, raised |-> ""]
        ELSE IF D = 0 THEN [pts |-> <<>>, raised |-> "ZeroDivisionError"]
        ELSE [pts |-> <<P(1), P(-1)>>, raised |-> ""]

\* get_intersections: the list of intersection points it returns (pts), or
\* the exception the division by d = 0 raises
get_intersections(x0, y0, r0, x1, y1, r1) ==
    LET dx == x1 - x0
        dy == y1 - y0
        D  == dx * dx + dy * dy
        A  == r0 * r0 - r1 * r1 + D
        KK == 4 * D * r0 * r0 - A * A
        P(s) == [px |-> 2 * D * x0 + A * dx, py |-> 2 * D * y0 + A * dy,
                 qx |-> s * dy, qy |-> -s * dx, K |-> KK, den |-> 2 * D,
                 gen |-> <<x0, y0, r0, x1, y1, r1, s>>]
        Return(x) == [pts |-> x, raised |-> ""]
    IN  IF DistGt(D, r0 + r1) THEN Return(<<>>)
        ELSE IF DistLt(D, Abs(r0 - r1)) THEN Return(<<>>)
        ELSE IF D = 0 /\ r0 = r1 THEN Return(<<>>)
        ELSE IF D = 0 THEN [pts |-> <<>>, raised |-> "ZeroDivisionError"]
        ELSE Return(<<P(1), P(-1)>>)

\* CechComplexBase.intersection
intersection(i, j) ==
    get_intersections(positions[i][1], positions[i][2], radius[i],
                      positions[j][1], positions[j][2], radius[j])

\* sign of (distance of p to the centre of cellid)^2 - radius[cellid]^2
PointSide(p, cellid) ==
    LET u == p.den * positions[cellid][1] - p.px
        v == p.den * positions[cellid][2] - p.py
        L == u * u + v * v + p.K * (p.qx * p.qx + p.qy * p.qy)
             - p.den * p.den * radius[cellid] * radius[cellid]
        M == 2 * (u * p.qx + v * p.qy)
    IN  SignSurd(L, M, p.K)

\* the test of p against cellid depends on rounding: p lies exactly on the
\* circle and was not computed exactly
Tie(p, cellid) == PointSide(p, cellid) = 0 /\ ~Exact(p)

\* the comparison "<=" of isPointInsideCell, side being the sign of its
\* exact left-hand side minus its right-hand side
Compare(side, p, cellid) ==
    IF side = 0 /\ ~Exact(p) THEN rnd[<<p.gen, Ball(cellid)>>]
    ELSE side <= 0

\* CechComplexBase.isPointInsideCell
isPointInsideCell(p, cellid) == Compare(PointSide(p, cellid), p, cellid)

Range(s) == {s[i] : i \in DOMAIN s}

\* iteration order of a set of small ints in CPython: ascending
RECURSIVE SortedSeq(_)
SortedSeq(set) ==
    IF set = {} THEN <<>>
    ELSE LET m == CHOOSE x \in set : \A y \in set : x <= y
         IN  <<m>> \o SortedSeq(set \ {m})

\* itertools.combinations(seq, r), as a list in the order it yields
RECURSIVE combinations(_, _)
combinations(seq, r) ==
    IF r = 0 THEN << <<>> >>
    ELSE IF Len(seq) < r THEN <<>>
    ELSE LET rest == SubSeq(seq, 2, Len(seq))
             with == combinations(rest, r - 1)
         IN  [i \in 1..Len(with) |-> <<seq[1]>> \o with[i]]
             \o combinations(rest, r)

RECURSIVE Flatten(_)
Flatten(ss) == IF ss = <<>> THEN <<>> ELSE ss[1] \o Flatten(Tail(ss))

\* the loop of verify's first lines: the first cell of least radius
Smallest(cells) ==
    cells[CHOOSE i \in 1..Len(cells) :
            /\ \A j \in 1..Len(cells) : radius[cells[i]] <= radius[cells[j]]
            /\ \A j \in 1..(i - 1) : radius[cells[j]] > radius[cells[i]]]

\* verify's containment shortcut: the flag "inside"
Inside(cells) ==
    \A i \in 1..Len(cells) :
        cells[i] = Smallest(cells) \/ isCellInsideCell(cells[i], Smallest(cells))

\* the loop "for cellid in cells: ... isPointInsideCell(p, cellid)" over the
\* cells `others`: the flag "exists"
PointExists(p, others) == \A c \in Range(others) : isPointInsideCell(p, c)

\* one tried point of verify: the point and the cells it is tested against;
\* raised # "" stands for a call that raises instead of producing points
Try(p, others) == [p |-> p, others |-> others, raised |-> ""]
Raise(what) == [p |-> NoPoint, others |-> <<>>, raised |-> what]

\* the points of x, the result of a call of intersection, each to be tested
\* against others
Tries(x, others) ==
    IF x.raised # "" THEN <<Raise(x.raised)>>
    ELSE [n \in 1..Len(x.pts) |-> Try(x.pts[n], others)]

\* the tried points of the call intersection(i, j), each tested against others
TriesOf(i, j, others) == Tries(intersection(i, j), others)

\* cells without the entries at indices a and b
Without(cells, a, b) ==
    LET idx == SelectSeq([i \in 1..Len(cells) |-> i], LAMBDA i : i \notin {a, b})
    IN  [n \in 1..Len(idx) |-> cells[idx[n]]]

\* a lazily written list as the list of its values
List(f) == f \o <<>>

\* trying the points of att in order: the first that passes is returned, a
\* call that raises before it ends the attempt
Outcome(try) ==
    IF try.raised # "" THEN [ok |-> FALSE, inter |-> NoPoint, raised |-> try.raised]
    ELSE [ok |-> TRUE, inter |-> try.p, raised |-> ""]

Least(set) == CHOOSE i \in set : \A j \in set : i <= j

\* hit: the indices of att where the loop over the tried points stops
WalkTo(att, hit) ==
    IF hit = {} THEN [ok |-> FALSE, inter |-> NoPoint, raised |-> ""]
    ELSE Outcome(att[Least(hit)])

Walk(att) ==
    WalkTo(att, {i \in 1..Len(att) :
                   att[i].raised # "" \/ PointExists(att[i].p, att[i].others)})

\* CechComplexLE.verify
\* the list "inter" of CechComplexLE.verify for the index pairs `pairs`
LEinter(cells, pairs) ==
    Flatten(List([m \in 1..Len(pairs) |->
        TriesOf(cells[pairs[m][1]], cells[pairs[m][2]],
                Without(cells, pairs[m][1], pairs[m][2]))]))

\* the second loop of CechComplexLE.verify; the first one has raised if a
\* call of intersection raises
LEwalk(inter) ==
    IF \E m \in 1..Len(inter) : inter[m].raised # ""
    THEN [ok |-> FALSE, inter |-> NoPoint, raised |-> "ZeroDivisionError"]
    ELSE [Walk(inter) EXCEPT !.inter = NoPoint]

LEverify(cells) ==
    IF Inside(cells) THEN [ok |-> TRUE, inter |-> NoPoint, raised |-> ""]
    ELSE LEwalk(LEinter(cells, combinations([i \in 1..Len(cells) |-> i], 2)))

\* CechComplex.verify, memo being self.intersections
\* the points verify tries before its last loop: those of
\* intersection(cells[0], cells[1]) for three cells, the witness stored for
\* pre_set for more; the lookup raises KeyError if none is stored
FirstTries(cells, pre_set, new_cand, memo) ==
    IF Len(pre_set) = 2
    THEN TriesOf(cells[1], cells[2], <<new_cand>>)
    ELSE IF Len(pre_set) > 2
    THEN IF Range(pre_set) \in DOMAIN memo
         THEN <<Try(memo[Range(pre_set)], <<new_cand>>)>>
         ELSE <<Raise("KeyError")>>
    ELSE <<>>

\* the points of verify's last loop: the last cell against each other cell
LastTries(cells, n) ==
    Flatten(List([j \in 1..(n - 1) |->
        TriesOf(cells[n], cells[j], Without(cells, n, j))]))

verify(cells, memo) ==
    IF Inside(cells)
    THEN [ok |-> TRUE, inter |-> Centre(Smallest(cells)), raised |-> ""]
    ELSE Walk(FirstTries(cells, SubSeq(cells, 1, Len(cells) - 1),
                         cells[Len(cells)], memo)
              \o LastTries(cells, Len(cells)))

\* CechComplexLE.getCandidates(kk), as the list of what it yields
LEgetCandidates(kk) ==
    Flatten([i1 \in 1..N |->
        LET i == i1 - 1
            cs == combinations(SortedSeq(neighbor["LE"][i]), kk)
        IN  [m \in 1..Len(cs) |-> <<i>> \o cs[m]]])

\* getCandidates extending s by the neighbours of its last vertex only
getCandidatesLastOnly(kk) ==
    LET prev == S["Opt"][kk]
    IN  Flatten([m \in 1..Len(prev) |->
            LET s == prev[m]
                cs == SortedSeq(neighbor["Opt"][s[Len(s)]] \ Range(s))
            IN  [n \in 1..Len(cs) |-> Append(s, cs[n])]])

\* CechComplex.getCandidates(kk), as the list of what it yields
getCandidates(kk) ==
    LET prev == S["Opt"][kk]      \* self.S[k-1]: S[1] is level 0
    IN  Flatten([m \in 1..Len(prev) |->
            LET s == prev[m]
                cand == {c \in 0..(N - 1) :
                            /\ \A i \in Range(s) : c \in neighbor["Opt"][i]
                            /\ c \notin Range(s)}
                cs == SortedSeq(cand)
            IN  [n \in 1..Len(cs) |-> Append(s, cs[n])]])

\* the entries of seq at the indices in keep, in order
Pick(seq, keep) ==
    LET idx == SelectSeq([i \in 1..Len(seq) |-> i], LAMBDA i : i \in keep)
    IN  List([m \in 1..Len(idx) |-> seq[idx[m]]])

\* CechComplexLE.simk._simk: the list Sk it returns, or what verify raised
\* res[i] being what verify returns on cands[i]
LEcollect(cands, res, bad) ==
    IF bad # {} THEN [Sk |-> <<>>, raised |-> res[Least(bad)].raised]
    ELSE [Sk |-> Pick(cands, {i \in 1..Len(cands) : res[i].ok}), raised |-> ""]

Raising(res) == {i \in 1..Len(res) : res[i].raised # ""}

LEresults(cands, res) == LEcollect(cands, res, Raising(res))

LE_simk(cands) ==
    LEresults(cands, List([i \in 1..Len(cands) |-> LEverify(cands[i])]))

\* CechComplex.simk._simk: the list Sk it returns and the memo tables as it
\* leaves them, or what verify raised.  A candidate is verified when its
\* index set is met for the first time; a call that raises ends the loop.
\* verify reads the memo of the candidate without its last vertex, an entry
\* of the level before: the entries this loop adds do not change its result.
\* "ns_sig not in verified" at candidate i of the loop
isNew(cands, verified0, i) ==
    /\ Range(cands[i]) \notin DOMAIN verified0
    /\ \A j \in 1..(i - 1) : Range(cands[j]) # Range(cands[i])

\* the candidate among `seen` whose index set is sig
At(cands, seen, sig) == CHOOSE i \in seen : Range(cands[i]) = sig

\* the loop without its line "self.intersections[ns_sig] = inter"
CollectNoWitness(cands, verified0, intersections0, res, seen, raised) ==
    [Sk |-> Pick(cands, {i \in seen : res[i].ok}),
     verified |->
        [sig \in DOMAIN verified0 \cup {Range(cands[i]) : i \in seen} |->
            IF sig \in DOMAIN verified0 THEN verified0[sig]
            ELSE res[At(cands, seen, sig)].ok],
     intersections |-> intersections0,
     raised |-> raised]

\* what the loop leaves: seen are the candidates it verified, res their results
Collect(cands, verified0, intersections0, res, seen, raised) ==
    [Sk |-> Pick(cands, {i \in seen : res[i].ok}),
     verified |->
        [sig \in DOMAIN verified0 \cup {Range(cands[i]) : i \in seen} |->
            IF sig \in DOMAIN verified0 THEN verified0[sig]
            ELSE res[At(cands, seen, sig)].ok],
     intersections |->
        [sig \in DOMAIN intersections0
                 \cup {Range(cands[i]) : i \in {j \in seen : res[j].ok}} |->
            IF sig \in DOMAIN intersections0 THEN intersections0[sig]
            ELSE res[At(cands, seen, sig)].inter],
     raised |-> raised]

\* the loop ends at the first candidate whose verify raises
Results(cands, verified0, intersections0, res, bad) ==
    IF bad = {}
    THEN Collect(cands, verified0, intersections0, res,
                 {i \in 1..Len(cands) : isNew(cands, verified0, i)}, "")
    ELSE Collect(cands, verified0, intersections0, res,
                 {i \in 1..(Least(bad) - 1) : isNew(cands, verified0, i)},
                 res[Least(bad)].raised)

Verified(cands, verified0, intersections0, res) ==
    Results(cands, verified0, intersections0, res, Raising(res))

_simk(cands, verified0, intersections0) ==
    Verified(cands, verified0, intersections0,
             List([i \in 1..Len(cands) |->
                IF isNew(cands, verified0, i) THEN verify(cands[i], intersections0)
                ELSE [ok |-> FALSE, inter |-> NoPoint, raised |-> ""]]))

\* "self.maxK and k > self.maxK"
PastMaxK(kk) == maxK # NoneK /\ maxK # 0 /\ kk > maxK

sim0 == [i \in 1..N |-> <<i - 1>>]

\* the pairs (i, j), i < j, in the order of sim1's loops
Pairs == combinations([i \in 1..N |-> i - 1], 2)

\* sim1 raises IndexError when intersects reads radius past its end
sim1Raises == \E m \in 1..Len(Pairs) : Pairs[m][2] \notin DOMAIN radius

sim1 == SelectSeq(Pairs, LAMBDA e : intersects(e[1], e[2]))

\* self.neighbor if sim1's inner loop started at i instead of i+1
sim1NeighborSelf ==
    [i \in 0..(N - 1) |-> {j \in 0..(N - 1) : intersects(i, j)}]

\* self.neighbor as sim1 leaves it
sim1Neighbor ==
    [i \in 0..(N - 1) |-> {j \in 0..(N - 1) : j # i /\ intersects(i, j)}]

Finished(o) == status[o] \in {"returned", "raised"}

\* CechComplexBase.cech up to the call of simk; the baseline object runs
\* first, the optimized one after it
Cech(o) ==
    /\ status[o] = "new"
    /\ o = "Opt" => Finished("LE")
    /\ IF sim1Raises
       THEN /\ status' = [status EXCEPT ![o] = "raised"]
            /\ err' = [err EXCEPT ![o] = "IndexError"]
            /\ UNCHANGED <<neighbor, S, k>>
       ELSE /\ status' = [status EXCEPT ![o] = "simk"]
            /\ neighbor' = [neighbor EXCEPT ![o] = sim1Neighbor]
            /\ S' = [S EXCEPT ![o] = <<sim0, sim1>>]
            /\ k' = [k EXCEPT ![o] = 2]
            /\ UNCHANGED err
    /\ UNCHANGED <<positions, radius, maxK, verified, intersections, rnd>>

\* one iteration of the while loop of CechComplexLE.simk
SimkLE ==
    /\ status["LE"] = "simk"
    /\ IF PastMaxK(k["LE"])
       THEN /\ status' = [status EXCEPT !["LE"] = "returned"]
            /\ UNCHANGED <<S, k, err>>
       ELSE \E r \in {LE_simk(LEgetCandidates(k["LE"]))} :
                IF r.raised # ""
                THEN /\ status' = [status EXCEPT !["LE"] = "raised"]
                     /\ err' = [err EXCEPT !["LE"] = r.raised]
                     /\ UNCHANGED <<S, k>>
                ELSE IF Len(r.Sk) = 0
                THEN /\ status' = [status EXCEPT !["LE"] = "returned"]
                     /\ UNCHANGED <<S, k, err>>
                ELSE /\ S' = [S EXCEPT !["LE"] = Append(@, r.Sk)]
                     /\ k' = [k EXCEPT !["LE"] = @ + 1]
                     /\ UNCHANGED <<status, err>>
    /\ UNCHANGED <<positions, radius, maxK, neighbor, verified, intersections, rnd>>

\* one iteration of the while loop of CechComplex.simk
SimkOpt ==
    /\ status["Opt"] = "simk"
    /\ IF PastMaxK(k["Opt"])
       THEN /\ status' = [status EXCEPT !["Opt"] = "returned"]
            /\ UNCHANGED <<S, k, err, verified, intersections>>
       ELSE \E r \in {_simk(getCandidates(k["Opt"]), verified, intersections)} :
                /\ verified' = r.verified
                /\ intersections' = r.intersections
                /\ IF r.raised # ""
                   THEN /\ status' = [status EXCEPT !["Opt"] = "raised"]
                        /\ err' = [err EXCEPT !["Opt"] = r.raised]
                        /\ UNCHANGED <<S, k>>
                   ELSE IF Len(r.Sk) # 0
                   THEN /\ S' = [S EXCEPT !["Opt"] = Append(@, r.Sk)]
                        /\ k' = [k EXCEPT !["Opt"] = @ + 1]
                        /\ UNCHANGED <<status, err>>
                   ELSE /\ status' = [status EXCEPT !["Opt"] = "returned"]
                        /\ UNCHANGED <<S, k, err>>
    /\ UNCHANGED <<positions, radius, maxK, neighbor, rnd>>

Next == Cech("LE") \/ Cech("Opt") \/ SimkLE \/ SimkOpt

\* the rounding-dependent tests the input admits: a point of
\* intersection(i, j) against a cell c other than i and j (none when sim1
\* raises, none with fewer than three cells)
TieKeys ==
    IF sim1Raises \/ N < 3 THEN {}
    ELSE UNION {
           {<<t[1].gen, Ball(t[2])>> :
              t \in {u \in Range(intersection(i, j).pts) \X ((0..(N - 1)) \ {i, j}) :
                       Tie(u[1], u[2])}}
           : i \in 0..(N - 1), j \in 0..(N - 1)}

Coords == 0..MaxCoord

\* the balls of the checked inputs: centre on the grid, radius in 1..MaxRadius
Balls == (Coords \X Coords) \X (1..MaxRadius)

\* the rank of a ball in the lexicographic order of (x, y, r)
Rank(b) == (b[1][1] * (MaxCoord + 1) + b[1][2]) * (MaxRadius + 1) + b[2]

\* the list b names its balls in non-decreasing order: the cells are indexed
\* by their place in the list, and each multiset of balls is listed once
Ordered(b) == \A i \in DOMAIN b : \A j \in DOMAIN b : i < j => Rank(b[i]) <= Rank(b[j])

\* the state of the two objects before cech is called
Fresh ==
    /\ status = [o \in Strategies |-> "new"]
    /\ neighbor = [o \in Strategies |-> <<>>]
    /\ S = [o \in Strategies |-> <<>>]
    /\ k = [o \in Strategies |-> 0]
    /\ err = [o \in Strategies |-> ""]
    /\ verified = <<>>
    /\ intersections = <<>>

\* every ordered list of at most MaxN balls with at most MaxTies
\* rounding-dependent tests, each with every way they can come out
Init ==
    /\ \E n \in 0..MaxN : \E b \in [0..(n - 1) -> Balls] :
          /\ Ordered(b)
          /\ positions = [i \in 0..(n - 1) |-> b[i][1]]
          /\ radius = [i \in 0..(n - 1) |-> b[i][2]]
    /\ maxK = NoneK
    /\ Cardinality(TieKeys) <= MaxTies
    /\ rnd \in [TieKeys -> BOOLEAN]
    /\ Fresh

Spec == Init /\ [][Next]_vars

\* a call of cech has a step left to take; every step changes status or k,
\* so this is ENABLED <<Next>>_vars
Busy == \E o \in Strategies : ~Finished(o)

\* cech runs to its end, each call and each iteration of a loop is taken:
\* WF_vars(Next), with ENABLED <<Next>>_vars written as Busy
Fairness == []<>(~Busy) \/ []<><<Next>>_vars

SpecFair == Spec /\ Fairness

\* the inputs of Init with at most MaxNDim balls, and maxK None or 0..MaxDim
InitMaxK ==
    /\ \E n \in 0..MaxNDim : \E b \in [0..(n - 1) -> Balls] :
          /\ Ordered(b)
          /\ positions = [i \in 0..(n - 1) |-> b[i][1]]
          /\ radius = [i \in 0..(n - 1) |-> b[i][2]]
    /\ maxK \in {NoneK} \cup (0..MaxDim)
    /\ Cardinality(TieKeys) <= MaxTies
    /\ rnd \in [TieKeys -> BOOLEAN]
    /\ Fresh

SpecMaxK == InitMaxK /\ [][Next]_vars

\* the centres of pos are listed in non-decreasing order
OrderedCentres(pos) ==
    \A i \in DOMAIN pos : \A j \in DOMAIN pos :
        i < j => Rank(<<pos[i], 0>>) <= Rank(<<pos[j], 0>>)

\* any two lists of at most MaxLen centres and of at most MaxLen radii, a
\* radius being any integer from -1 to MaxRadius: the lengths may differ and
\* a radius may be negative
InitAny ==
    /\ \E n \in 0..MaxLen : \E m \in 0..MaxLen :
          /\ positions \in {pos \in [0..(n - 1) -> Coords \X Coords] :
                                OrderedCentres(pos)}
          /\ radius \in [0..(m - 1) -> (-1)..MaxRadius]
    /\ maxK = NoneK
    /\ Cardinality(TieKeys) <= MaxTies
    /\ rnd \in [TieKeys -> BOOLEAN]
    /\ Fresh

SpecAny == InitAny /\ [][Next]_vars

(***************************************************************************)
(* Properties.  S[o][l] is level l-1 of the complex of strategy o.         *)
(***************************************************************************)

Returned(o) == status[o] = "returned"

\* the index sets of the simplices of a level
Canon(level) == {Range(level[i]) : i \in DOMAIN level}

\* the four balls (0,0) r=1, (0,0) r=1, (0,0) r=1, (1,1) r=2
ThreeAndOne ==
    /\ positions = [i \in 0..3 |-> IF i < 3 THEN <<0, 0>> ELSE <<1, 1>>]
    /\ radius = [i \in 0..3 |-> IF i < 3 THEN 1 ELSE 2]

\* C1: once both strategies have returned, their complexes have the same
\* number of levels and, level by level, the same index sets.
C1_SameComplex ==
    (Returned("LE") /\ Returned("Opt")) =>
        /\ Len(S["LE"]) = Len(S["Opt"])
        /\ \A l \in DOMAIN S["LE"] :
              l \in DOMAIN S["Opt"] => Canon(S["LE"][l]) = Canon(S["Opt"][l])

\* on ThreeAndOne the baseline holds the triangle {0,1,3} and the optimized
\* strategy holds {0,1,2} alone at level 2
C1_Diverge ==
    /\ ThreeAndOne
    /\ Returned("LE") /\ Returned("Opt")
    /\ {0, 1, 3} \in Canon(S["LE"][3])
    /\ Canon(S["Opt"][3]) = {{0, 1, 2}}

\* every non-empty subset of every simplex of o's complex is in the level
\* of its size
Monotone(o) ==
    \A l \in DOMAIN S[o] : \A i \in DOMAIN S[o][l] :
        \A T \in (SUBSET Range(S[o][l][i])) \ {{}} :
            /\ Cardinality(T) \in DOMAIN S[o]
            /\ T \in Canon(S[o][Cardinality(T)])

\* C2: the complex a strategy returns is closed under taking non-empty
\* subsets of its simplices.
C2_DownwardClosed == \A o \in Strategies : Returned(o) => Monotone(o)

\* on ThreeAndOne the optimized strategy returns the tetrahedron {0,1,2,3}
\* and not its face {0,1,3}
C2_FaceMissing ==
    /\ ThreeAndOne
    /\ Returned("Opt")
    /\ Len(S["Opt"]) = 4
    /\ {0, 1, 2, 3} \in Canon(S["Opt"][4])
    /\ {0, 1, 3} \notin Canon(S["Opt"][3])

\* C3: a complex returned for a maximum dimension maxK (0 and 1 included)
\* has no level of index greater than maxK.
C3_MaxDimension ==
    \A o \in Strategies :
        (Returned(o) /\ maxK # NoneK) => Len(S[o]) <= maxK + 1

\* cech called with maxK = 0 on two overlapping balls returns level 1
C3_LevelOneAtZero ==
    /\ maxK = 0
    /\ N = 2
    /\ Returned("Opt")
    /\ Len(S["Opt"]) = 2
    /\ Len(S["Opt"][2]) = 1

\* the precondition of cech fails: lengths differ or a radius is negative
Invalid ==
    \/ Cardinality(DOMAIN positions) # Cardinality(DOMAIN radius)
    \/ \E i \in DOMAIN radius : radius[i] < 0

\* C4: on an input with mismatched lengths or a negative radius, cech
\* builds no level and runs no geometry: it only ever fails, with InputError.
C4_InputError ==
    Invalid => \A o \in Strategies :
                  /\ status[o] \in {"new", "raised"}
                  /\ status[o] = "raised" => err[o] = "InputError"
                  /\ S[o] = <<>>

\* cech returns two levels for two balls of radii -1 and 1
C4_NegativeRadiusReturns ==
    /\ N = 2
    /\ radius = [i \in 0..1 |-> IF i = 0 THEN -1 ELSE 1]
    /\ Returned("LE") /\ Returned("Opt")
    /\ Len(S["LE"]) = 2 /\ Len(S["Opt"]) = 2

\* no two entries of the level have the same index set
NoDuplicates(level) ==
    \A i \in DOMAIN level : \A j \in DOMAIN level :
        i # j => Range(level[i]) # Range(level[j])

\* C5: no level of a returned complex, under either strategy, holds two
\* entries with the same index set.
C5_NoDuplicates ==
    \A o \in Strategies :
        Returned(o) => \A l \in DOMAIN S[o] : NoDuplicates(S[o][l])

\* three concentric balls of radii 1, 1, 2: the baseline returns the
\* triangle three times, the optimized strategy once
C5_TriangleThrice ==
    /\ positions = [i \in 0..2 |-> <<0, 0>>]
    /\ radius = [i \in 0..2 |-> IF i < 2 THEN 1 ELSE 2]
    /\ Returned("LE") /\ Returned("Opt")
    /\ S["LE"][3] = << <<0, 1, 2>>, <<1, 0, 2>>, <<2, 0, 1>> >>
    /\ S["Opt"][3] = << <<0, 1, 2>> >>

\* the candidates the optimized strategy verifies at its next iteration
Candidates ==
    IF status["Opt"] = "simk" /\ ~PastMaxK(k["Opt"])
    THEN getCandidates(k["Opt"]) ELSE <<>>

\* the subsets of the vertices of cand with one vertex less
Faces(cand) == {T \in SUBSET Range(cand) : Cardinality(T) = Len(cand) - 1}

\* C6 as stated: every candidate of level k has all of its k-vertex subsets
\* in the verified level k-1.
C6_AllFacesVerified ==
    \A i \in DOMAIN Candidates :
        Faces(Candidates[i]) \subseteq Canon(S["Opt"][k["Opt"]])

\* C6: every candidate of level k is a simplex of the verified level k-1
\* extended by one further vertex, and every two of its vertices form a
\* simplex of level 1.
C6_ParentAndEdgesVerified ==
    \A i \in DOMAIN Candidates :
        LET cand == Candidates[i]
        IN  /\ Len(cand) = k["Opt"] + 1
            /\ Cardinality(Range(cand)) = Len(cand)
            /\ \E m \in DOMAIN S["Opt"][k["Opt"]] :
                  S["Opt"][k["Opt"]][m] = SubSeq(cand, 1, Len(cand) - 1)
            /\ \A u \in Range(cand) : \A v \in Range(cand) :
                  u # v => {u, v} \in Canon(S["Opt"][2])

\* a candidate on four vertices is proposed with a face that is no simplex of
\* level 2, and no point-in-disc test of the input depends on rounding
C6_HollowFace ==
    /\ DOMAIN rnd = {}
    /\ \E i \in DOMAIN Candidates :
          /\ Len(Candidates[i]) = 4
          /\ ~(Faces(Candidates[i]) \subseteq Canon(S["Opt"][3]))

\* the closed-disc test of a stored witness p against cell c, a test whose
\* rounding the input does not fix being taken to pass
InDisc(p, c) ==
    IF Tie(p, c) /\ <<p.gen, Ball(c)>> \notin DOMAIN rnd THEN TRUE
    ELSE isPointInsideCell(p, c)

\* C7: every witness in the memo table passes the closed-disc test of every
\* ball of its key.
C7_WitnessInEveryBall ==
    \A sig \in DOMAIN intersections :
        \A c \in sig : InDisc(intersections[sig], c)

\* on (0,0) r=1, (0,0) r=1, (0,0) r=2, (1,1) r=2 the witness stored for
\* {0,2,3} is a point of the circles 3 and 0 that fails the test of ball 0
C7_WitnessOutside ==
    /\ positions = [i \in 0..3 |-> IF i < 3 THEN <<0, 0>> ELSE <<1, 1>>]
    /\ radius = [i \in 0..3 |-> IF i < 2 THEN 1 ELSE 2]
    /\ Returned("Opt")
    /\ Canon(S["Opt"][3]) = {{0, 1, 2}, {0, 2, 3}, {1, 2, 3}}
    /\ {0, 2, 3} \in DOMAIN intersections
    /\ intersections[{0, 2, 3}].gen = <<1, 1, 2, 0, 0, 1, 1>>
    /\ ~isPointInsideCell(intersections[{0, 2, 3}], 0)

\* C8: get_intersections raises no ZeroDivisionError, neither in a run nor on
\* any two balls of the input, and returns no point for concentric circles.
C8_NoDivisionByZero ==
    /\ \A o \in Strategies : err[o] # "ZeroDivisionError"
    /\ \A i \in DOMAIN positions \cap DOMAIN radius :
       \A j \in DOMAIN positions \cap DOMAIN radius :
          /\ intersection(i, j).raised = ""
          /\ positions[i] = positions[j] => intersection(i, j).pts = <<>>

\* the baseline has verified, past the containment shortcut, a triangle with
\* two concentric balls of unequal radii
C8_ConcentricTried ==
    /\ Returned("LE")
    /\ \E m \in DOMAIN LEgetCandidates(2) :
          /\ ~Inside(LEgetCandidates(2)[m])
          /\ \E i \in Range(LEgetCandidates(2)[m]) :
             \E j \in Range(LEgetCandidates(2)[m]) :
                positions[i] = positions[j] /\ radius[i] # radius[j]

Max(a, b) == IF a >= b THEN a ELSE b

\* C9: the level index of neither strategy exceeds max(N, 2), and both calls
\* of cech come to their end.
C9_Terminates ==
    /\ [](\A o \in Strategies : k[o] <= Max(N, 2))
    /\ <>(Finished("LE") /\ Finished("Opt"))

\* both loops have stopped at k = N on four balls
C9_LoopReachesN ==
    /\ N = 4
    /\ Returned("LE") /\ Returned("Opt")
    /\ k["LE"] = N /\ k["Opt"] = N

\* C10: verify's lookup of the witness of a candidate without its last vertex
\* never misses: no KeyError, every simplex of a level from 2 on has its
\* witness stored, and so has the base of every candidate on four or more
\* vertices.
C10_MemoHoldsBase ==
    /\ err["Opt"] # "KeyError"
    /\ \A l \in DOMAIN S["Opt"] : \A i \in DOMAIN S["Opt"][l] :
          l >= 3 => Range(S["Opt"][l][i]) \in DOMAIN intersections
    /\ \A i \in DOMAIN Candidates :
          Len(Candidates[i]) >= 4 =>
             Range(SubSeq(Candidates[i], 1, Len(Candidates[i]) - 1))
                \in DOMAIN intersections

\* a simplex on four vertices was accepted past the containment shortcut:
\* verify looked up the witness of its first three vertices
C10_WitnessReused ==
    /\ Returned("Opt")
    /\ Len(S["Opt"]) = 4
    /\ \E i \in DOMAIN S["Opt"][4] :
          /\ ~Inside(S["Opt"][4][i])
          /\ intersections[Range(S["Opt"][4][i])]
                = intersections[Range(SubSeq(S["Opt"][4][i], 1, 3))]
====
